---------------------------- MODULE Spec2Model ----------------------------
(***************************************************************************)
(* A model of cvocgen, the C vocabulary generator (BPE over SMILES/SELFIES *)
(* strings): the chained hash table, the pair statistics, the selection of *)
(* the best pair, merge_pair, the training loop of train_bpe_from_file and *)
(* the vocabulary serializer of cvocgen_io.h.                              *)
(*                                                                         *)
(* A C string is a sequence of one-character strings, so that hashing,     *)
(* splitting at a space, formatting and parsing work on characters as the  *)
(* code does.                                                              *)
(***************************************************************************)
EXTENDS Integers, Sequences, FiniteSets, TLC

VARIABLES
    \* a hash table driven through its API
    ht,          \* the HashTable
    calls,       \* for each key, the number of hash_insert_or_increment calls made
    htop,        \* the last API call made on ht: <<name, new_size of a resize>>
    \* merge_pair called on its own
    mp_tokens,   \* the sequence passed to the last call
    mp_pair,     \* the pair string passed to the last call
    mp_result,   \* the sequence the last call returned (at first, the input)
    mp_round,    \* the number of calls made
    \* train_bpe_from_file
    pc,          \* the place reached in train_bpe_from_file
    corpus,      \* the lines of the corpus file
    num_merges,  \* the merge budget asked for
    vocab,       \* the Vocabulary
    lineno,      \* the number of lines fgets has returned in the current pass
    line_count,  \* the number of molecules the first pass counted
    all_tokens,  \* the Corpus: all_tokens[0..token_count-1]
    merges,      \* merges[0..merge_count-1], the MergeHistory
    round_i,     \* i of the merge loop: the round
    mol_j,       \* j of a loop over all_tokens: the molecule it is at
    pair_stats,  \* this round's pair statistics
    best_pair,   \* what get_best_pair returned
    pair_count,  \* what get_best_pair stored in *count
    \* the files written by the save functions, and what a loader returned
    vocab_file,  \* the characters of vocab_<n>.txt
    json_file,   \* the characters of vocab_<n>.json
    freq_file,   \* the characters of vocab_<n>_freq.json
    loaded,      \* the loader called and vocab, merges_out, merge_count_out
    \* pre_tokenize called on its own
    input_format_is_smiles,  \* the global format setting
    tk_text,     \* the string passed to pre_tokenize
    tk_results,  \* the token lists the calls made so far returned
    \* train_bpe called on a literal string
    bpe          \* what the call did: NULL before it

mpvars == <<mp_tokens, mp_pair, mp_result, mp_round>>
htvars == <<ht, calls, htop>>
trvars == <<pc, corpus, num_merges, vocab, lineno, line_count, all_tokens,
            merges, round_i, mol_j, pair_stats, best_pair, pair_count>>
iovars == <<vocab_file, json_file, freq_file, loaded>>
tkvars == <<input_format_is_smiles, tk_text, tk_results>>
vars == <<htvars, mpvars, trvars, iovars, tkvars, bpe>>

(***************************************************************************)
(* Characters and the hash function                                        *)
(***************************************************************************)

\* the byte of a character (ASCII), as key[i] reads it
Code(c) ==
    CASE c = "\t" -> 9   [] c = "\n" -> 10  [] c = " " -> 32  [] c = "\"" -> 34
      [] c = "," -> 44   [] c = "-" -> 45   [] c = "." -> 46  [] c = "/" -> 47
      [] c = "0" -> 48   [] c = "1" -> 49   [] c = "2" -> 50  [] c = "3" -> 51
      [] c = "4" -> 52   [] c = "5" -> 53   [] c = "6" -> 54  [] c = "7" -> 55
      [] c = "8" -> 56   [] c = "9" -> 57   [] c = ":" -> 58  [] c = "<" -> 60
      [] c = "=" -> 61   [] c = ">" -> 62   [] c = "C" -> 67  [] c = "N" -> 78
      [] c = "O" -> 79   [] c = "[" -> 91   [] c = "\\" -> 92 [] c = "]" -> 93
      [] c = "a" -> 97   [] c = "d" -> 100  [] c = "k" -> 107 [] c = "m" -> 109
      [] c = "n" -> 110  [] c = "p" -> 112  [] c = "s" -> 115 [] c = "u" -> 117
      [] c = "{" -> 123  [] c = "}" -> 125

\* an unsigned long is four 16-bit limbs, least significant first (LP64)
Limb == 2^16

\* value * 37 + c in unsigned long arithmetic (the carry out of the top limb is lost)
MulAdd(value, c) ==
    LET t0 == value[1] * 37 + c
        t1 == value[2] * 37 + (t0 \div Limb)
        t2 == value[3] * 37 + (t1 \div Limb)
        t3 == value[4] * 37 + (t2 \div Limb)
    IN  <<t0 % Limb, t1 % Limb, t2 % Limb, t3 % Limb>>

RECURSIVE HashValue(_, _)
\* value after the loop of hash has read key[0..n-1]
HashValue(key, n) ==
    IF n = 0 THEN <<0, 0, 0, 0>>
    ELSE MulAdd(HashValue(key, n - 1), Code(key[n]))

\* unsigned int hash(const char* key, unsigned int size): value % size
hash(key, size) ==
    LET v  == HashValue(key, Len(key))
        r3 == v[4] % size
        r2 == (r3 * Limb + v[3]) % size
        r1 == (r2 * Limb + v[2]) % size
    IN  (r1 * Limb + v[1]) % size

(***************************************************************************)
(* The hash table: an array of chains; a chain is a sequence of items,     *)
(* head first.                                                             *)
(***************************************************************************)

\* the initial bucket count of a table made with size 0, of the Vocabulary and
\* of the pair statistics.  cvocgen.h sets 10000; the model scales it down so
\* that the load threshold is reached by the corpora within the bounds.
HT_DEFAULT_SIZE == 4

\* 0.7 as numerator and denominator
HT_DEFAULT_LOAD_THRESHOLD == <<7, 10>>

NULL == [null |-> TRUE]

\* a char* that is NULL (no string of characters equals it)
NULLSTR == <<"NULL">>

\* the variables of a part of the program that is not running
HtIdle == ht = NULL /\ calls = <<>> /\ htop = <<>>
MpIdle == mp_tokens = <<>> /\ mp_pair = <<>> /\ mp_result = <<>> /\ mp_round = 0
TrIdle ==
    /\ pc = "idle" /\ corpus = <<>> /\ num_merges = 0 /\ vocab = NULL
    /\ lineno = 0 /\ line_count = 0 /\ all_tokens = <<>> /\ merges = <<>>
    /\ round_i = 0 /\ mol_j = 0 /\ pair_stats = NULL /\ best_pair = NULLSTR
    /\ pair_count = 0
IoIdle ==
    /\ vocab_file = NULLSTR /\ json_file = NULLSTR /\ freq_file = NULLSTR
    /\ loaded = NULL

TkIdle ==
    /\ input_format_is_smiles = FALSE /\ tk_text = <<>> /\ tk_results = <<>>
BpeIdle == bpe = NULL

Ht_item(key, count) == [key |-> key, count |-> count]

ht_create_with_threshold(size, load_threshold) ==
    LET s == IF size = 0 THEN HT_DEFAULT_SIZE ELSE size
    IN  [size |-> s, count |-> 0, load_threshold |-> load_threshold,
         items |-> [i \in 0..(s - 1) |-> <<>>]]

ht_create(size) == ht_create_with_threshold(size, HT_DEFAULT_LOAD_THRESHOLD)

\* the position in chain of the first item with this key, 0 when there is none
RECURSIVE ChainFind(_, _, _)
ChainFind(chain, key, n) ==
    IF n > Len(chain) THEN 0
    ELSE IF chain[n].key = key THEN n
    ELSE ChainFind(chain, key, n + 1)

hash_search(t, key) ==
    LET chain == t.items[hash(key, t.size)]
        n     == ChainFind(chain, key, 1)
    IN  IF n = 0 THEN NULL ELSE chain[n]

\* the items in table-iteration order: buckets 0..size-1, each chain from its head
RECURSIVE ItemsFrom(_, _)
ItemsFrom(t, i) ==
    IF i >= t.size THEN <<>> ELSE t.items[i] \o ItemsFrom(t, i + 1)

TableItems(t) == ItemsFrom(t, 0)

\* the loop of ht_resize after it has moved the first n items (in iteration
\* order) to the heads of their new chains
RECURSIVE Rehash(_, _, _)
Rehash(all, n, new_size) ==
    IF n = 0 THEN [i \in 0..(new_size - 1) |-> <<>>]
    ELSE LET done == Rehash(all, n - 1, new_size)
             slot == hash(all[n].key, new_size)
         IN  [done EXCEPT ![slot] = <<all[n]>> \o @]

\* ht_resize moving only the head of each chain (the rest of a chain is lost
\* when next is read after the item was relinked)
ht_resize_heads(t, new_size) ==
    LET heads == [i \in 0..(t.size - 1) |->
                     IF t.items[i] = <<>> THEN <<>> ELSE <<t.items[i][1]>>]
        all   == TableItems([t EXCEPT !.items = heads])
    IN  [t EXCEPT !.items = Rehash(all, Len(all), new_size), !.size = new_size]

ht_resize(t, new_size) ==
    IF new_size = 0 THEN t
    ELSE LET all == TableItems(t)
         IN  [t EXCEPT !.items = Rehash(all, Len(all), new_size),
                       !.size = new_size]

\* load_factor >= ht->load_threshold, with load_factor = (count + 1) / size
NeedsResize(t) ==
    (t.count + 1) * t.load_threshold[2] >= t.load_threshold[1] * t.size

\* ht->items[slot] with the item at position n of its chain given this count
SetCount(t, slot, n, count) ==
    [t EXCEPT !.items[slot][n].count = count]

\* a new item at the head of ht->items[slot]; ht->count is the caller's to change
PushItem(t, key, count) ==
    LET slot == hash(key, t.size)
    IN  [t EXCEPT !.items[slot] = <<Ht_item(key, count)>> \o @]

\* hash_insert_or_increment that inserts a new item in the slot computed before
\* the resize
hash_insert_or_increment_stale(t, key) ==
    LET r    == IF NeedsResize(t) THEN ht_resize(t, t.size * 2) ELSE t
        slot == hash(key, r.size)
        n    == ChainFind(r.items[slot], key, 1)
    IN  IF n # 0
        THEN SetCount(r, slot, n, r.items[slot][n].count + 1)
        ELSE [r EXCEPT !.items[hash(key, t.size)] = <<Ht_item(key, 1)>> \o @,
                       !.count = r.count + 1]

hash_insert_or_increment(t, key) ==
    LET r    == IF NeedsResize(t) THEN ht_resize(t, t.size * 2) ELSE t
        slot == hash(key, r.size)
        n    == ChainFind(r.items[slot], key, 1)
    IN  IF n # 0
        THEN SetCount(r, slot, n, r.items[slot][n].count + 1)
        ELSE [PushItem(r, key, 1) EXCEPT !.count = r.count + 1]

(***************************************************************************)
(* The hash table under any sequence of API calls                          *)
(***************************************************************************)

\* the keys inserted: tokens and pair keys, some of which share a bucket
HtKeys ==
    { <<"[", "C", "]">>, <<"[", "N", "]">>, <<".">>,
      <<"[", "C", "]", " ", "[", "N", "]">>, <<"[", " ", "]">> }

MaxCalls == 6
MaxInitSize == 3
MaxNewSize == 5

TotalCalls == LET RECURSIVE Sum(_)
                  Sum(S) == IF S = {} THEN 0
                            ELSE LET k == CHOOSE k \in S : TRUE
                                 IN  calls[k] + Sum(S \ {k})
              IN  Sum(HtKeys)

HtInit ==
    /\ \E size \in 0..MaxInitSize : ht = ht_create(size)
    /\ calls = [k \in HtKeys |-> 0]
    /\ htop = <<"create", 0>>
    /\ MpIdle /\ TrIdle /\ IoIdle /\ TkIdle /\ BpeIdle

HtInsert ==
    /\ TotalCalls < MaxCalls
    /\ \E key \in HtKeys :
          /\ ht' = hash_insert_or_increment(ht, key)
          /\ calls' = [calls EXCEPT ![key] = @ + 1]
    /\ htop' = <<"insert", 0>>
    /\ UNCHANGED <<mpvars, tkvars, bpe, trvars, iovars>>

HtResize ==
    /\ \E new_size \in 1..MaxNewSize :
          /\ ht' = ht_resize(ht, new_size)
          /\ htop' = <<"resize", new_size>>
    /\ UNCHANGED <<calls, mpvars, tkvars, bpe, trvars, iovars>>

HtNext == HtInsert \/ HtResize

SpecHT == HtInit /\ [][HtNext]_vars

\* the number of items of t stored under key
Stored(t, key) ==
    Cardinality({i \in 1..Len(TableItems(t)) : TableItems(t)[i].key = key})

\* C6: after any sequence of hash_insert_or_increment calls on a fresh table,
\* with resizes in between, hash_search finds no entry for a key never inserted
\* and otherwise an entry whose count is the number of calls made with the key;
\* each key is stored in exactly one entry.
C6_SearchCountsCalls ==
    \A k \in HtKeys :
        /\ calls[k] = 0 => hash_search(ht, k) = NULL /\ Stored(ht, k) = 0
        /\ calls[k] > 0 => /\ hash_search(ht, k) # NULL
                           /\ hash_search(ht, k).key = k
                           /\ hash_search(ht, k).count = calls[k]
                           /\ Stored(ht, k) = 1

\* an insert into a table that has doubled, with a key inserted repeatedly and
\* two keys sharing a chain
C6_Witness ==
    /\ htop[1] = "insert"
    /\ ht.size >= 8
    /\ \E k \in HtKeys : calls[k] >= 2
    /\ \E i \in 0..(ht.size - 1) : Len(ht.items[i]) >= 2

\* C7: ht_resize(ht, new_size) with new_size > 0 keeps the key-to-count
\* mapping: every entry is found afterwards with the same count, none is lost,
\* no key appears twice, the item count is unchanged and the bucket count
\* becomes new_size.
C7_ResizeKeepsMapping ==
    [][ htop'[1] = "resize" =>
          /\ \A k \in HtKeys : /\ hash_search(ht', k) = hash_search(ht, k)
                                /\ Stored(ht', k) = Stored(ht, k)
          /\ Len(TableItems(ht')) = Len(TableItems(ht))
          /\ ht'.count = ht.count
          /\ ht'.load_threshold = ht.load_threshold
          /\ ht'.size = htop'[2]
          /\ DOMAIN ht'.items = 0..(htop'[2] - 1) ]_vars

\* a resize of a table of three or more entries that leaves two in one chain
C7_Witness ==
    /\ htop[1] = "resize"
    /\ ht.count >= 3
    /\ \E i \in 0..(ht.size - 1) : Len(ht.items[i]) >= 2


(***************************************************************************)
(* merge_pair                                                              *)
(***************************************************************************)

Min(a, b) == IF a < b THEN a ELSE b

\* what snprintf(buf, size, ...) leaves in buf of the string it formats
Snprintf(size, str) == SubSeq(str, 1, Min(Len(str), size - 1))

\* char merged[256]
MergedSize == 256

\* strchr(str, c): the position of the first c in str, 0 when there is none
RECURSIVE Strchr(_, _, _)
Strchr(str, c, n) ==
    IF n > Len(str) THEN 0
    ELSE IF str[n] = c THEN n
    ELSE Strchr(str, c, n + 1)

\* the two halves of a pair string split at its first space
SplitFirst(pair) == SubSeq(pair, 1, Strchr(pair, " ", 1) - 1)
SplitSecond(pair) == SubSeq(pair, Strchr(pair, " ", 1) + 1, Len(pair))

\* the merged token formatted from the first half alone
MergedFirstOnly(first, second) == Snprintf(MergedSize, first)

\* snprintf(merged, sizeof(merged), "%s%s", first, second)
Merged(first, second) == Snprintf(MergedSize, first \o second)

\* the loop of merge_pair at index i (from 0) with the result built so far
RECURSIVE MergeLoop(_, _, _, _, _)
MergeLoop(tokens, first, second, i, result) ==
    IF i >= Len(tokens) THEN result
    ELSE IF /\ i < Len(tokens) - 1
            /\ tokens[i + 1] = first
            /\ tokens[i + 2] = second
         THEN MergeLoop(tokens, first, second, i + 2,
                        Append(result, Merged(first, second)))
         ELSE MergeLoop(tokens, first, second, i + 1,
                        Append(result, tokens[i + 1]))

\* the loop of merge_pair without the i++ that skips the merged second token
RECURSIVE MergeLoopNoSkip(_, _, _, _, _)
MergeLoopNoSkip(tokens, first, second, i, result) ==
    IF i >= Len(tokens) THEN result
    ELSE IF /\ i < Len(tokens) - 1
            /\ tokens[i + 1] = first
            /\ tokens[i + 2] = second
         THEN MergeLoopNoSkip(tokens, first, second, i + 1,
                              Append(result, Merged(first, second)))
         ELSE MergeLoopNoSkip(tokens, first, second, i + 1,
                              Append(result, tokens[i + 1]))

merge_pair_noskip(tokens, pair) ==
    IF Strchr(pair, " ", 1) = 0 THEN tokens
    ELSE MergeLoopNoSkip(tokens, SplitFirst(pair), SplitSecond(pair), 0, <<>>)

merge_pair(tokens, pair) ==
    IF Strchr(pair, " ", 1) = 0 THEN tokens
    ELSE MergeLoop(tokens, SplitFirst(pair), SplitSecond(pair), 0, <<>>)

\* the merged token of a pair string: its halves concatenated
MergedOf(pair) == Merged(SplitFirst(pair), SplitSecond(pair))

\* sizeof(pair_key): cvocgen.c declares char pair_key[256]. Scaled, so that one
\* bracket group can fill the buffer; the pair keys of the short lines tried
\* stay below it, as keys of ordinary tokens stay below 256
PairKeySize == 16

\* snprintf(pair_key, sizeof(pair_key), "%s %s", a, b)
PairKey(a, b) == Snprintf(PairKeySize, a \o <<" ">> \o b)

(***************************************************************************)
(* merge_pair called on its own, again and again on its own result         *)
(***************************************************************************)

MpTokens == { <<"[", "C", "]">>, <<"[", "N", "]">>, <<"[", " ", "]">> }

MaxSeqLen == 4
MaxMpRounds == 2

\* the sequences of at most n tokens of S
RECURSIVE SeqsUpTo(_, _)
SeqsUpTo(S, n) ==
    IF n = 0 THEN {<<>>}
    ELSE LET shorter == SeqsUpTo(S, n - 1)
         IN  shorter \cup {Append(q, t) : q \in shorter, t \in S}

\* the tokens of a sequence
Range(q) == {q[i] : i \in 1..Len(q)}

MpInit ==
    /\ mp_result \in SeqsUpTo(MpTokens, MaxSeqLen)
    /\ mp_tokens = <<>>
    /\ mp_pair = <<>>
    /\ mp_round = 0
    /\ HtIdle /\ TrIdle /\ IoIdle /\ TkIdle /\ BpeIdle

\* merge_pair(tokens, pair) on the last result, with the pair string of two
\* tokens or a string that holds no space
MpCall ==
    /\ mp_round < MaxMpRounds
    /\ \E pair \in {PairKey(a, b) : a, b \in MpTokens \cup Range(mp_result)}
                    \cup MpTokens :
          /\ mp_pair' = pair
          /\ mp_result' = merge_pair(mp_result, pair)
    /\ mp_tokens' = mp_result
    /\ mp_round' = mp_round + 1
    /\ UNCHANGED <<htvars, trvars, iovars, tkvars, bpe>>

MpNext == MpCall

SpecMerge == MpInit /\ [][MpNext]_vars

\* the reference pass of the Merge Engine over the tokens still to read
RECURSIVE RefMerge(_, _, _)
RefMerge(rest, first, second) ==
    IF rest = <<>> THEN <<>>
    ELSE IF Len(rest) >= 2 /\ Head(rest) = first /\ Head(Tail(rest)) = second
         THEN <<first \o second>> \o RefMerge(Tail(Tail(rest)), first, second)
         ELSE <<Head(rest)>> \o RefMerge(Tail(rest), first, second)

\* C3: merge_pair(sequence, pair) is the single left-to-right pass: where
\* token[i] = first and token[i+1] = second it emits first concatenated with
\* second and advances by two, otherwise it emits token[i] and advances by one
\* (first and second being the halves of the pair string).
C3_MergePairIsReferencePass ==
    (mp_round > 0 /\ Strchr(mp_pair, " ", 1) # 0) =>
        mp_result = RefMerge(mp_tokens, SplitFirst(mp_pair), SplitSecond(mp_pair))

\* A A A with the pair (A, A) gave AA A
C3_Witness ==
    /\ mp_round > 0
    /\ mp_tokens = << <<"[", "C", "]">>, <<"[", "C", "]">>, <<"[", "C", "]">> >>
    /\ mp_pair = <<"[", "C", "]", " ", "[", "C", "]">>
    /\ mp_result = << <<"[", "C", "]", "[", "C", "]">>, <<"[", "C", "]">> >>

(***************************************************************************)
(* pre_tokenize: the successive leftmost matches of the SELFIES pattern    *)
(* (\[[^]]+\]|\.), the default input format                                *)
(***************************************************************************)

\* the length of the match of the pattern that starts at text[q], 0 for none:
\* a "." or a "[", one or more characters that are not "]", and a "]"
SelfiesMatchLen(text, q) ==
    IF text[q] = "." THEN 1
    ELSE IF text[q] = "["
         THEN LET r == Strchr(text, "]", q + 1)
              IN  IF r = 0 \/ r = q + 1 THEN 0 ELSE r - q + 1
         ELSE 0

\* regexec from text[p]: the start of the leftmost match, 0 when none is left
RECURSIVE Regexec(_, _)
Regexec(text, p) ==
    IF p > Len(text) THEN 0
    ELSE IF SelfiesMatchLen(text, p) > 0 THEN p
    ELSE Regexec(text, p + 1)

\* the while loop of pre_tokenize from text[p] with the list built so far
RECURSIVE TokenizeFrom(_, _, _)
TokenizeFrom(text, p, list) ==
    LET so == Regexec(text, p)
    IN  IF so = 0 THEN list
        ELSE LET len == SelfiesMatchLen(text, so)
             IN  TokenizeFrom(text, so + len,
                              Append(list, SubSeq(text, so, so + len - 1)))

pre_tokenize(text) == TokenizeFrom(text, 1, <<>>)

(***************************************************************************)
(* Pair statistics and selection                                           *)
(***************************************************************************)

\* the first pass counting only the last token of a line
InsertTokensLast(t, tokens, n) ==
    IF n = 0 THEN t ELSE hash_insert_or_increment(t, tokens[n])

\* hash_insert_or_increment of tokens[0..n-1] in turn
RECURSIVE InsertTokens(_, _, _)
InsertTokens(t, tokens, n) ==
    IF n = 0 THEN t
    ELSE hash_insert_or_increment(InsertTokens(t, tokens, n - 1), tokens[n])

\* the loop over k that counts the pairs of one molecule, after n pairs
RECURSIVE CountPairsTo(_, _, _)
CountPairsTo(stats, tokens, n) ==
    IF n = 0 THEN stats
    ELSE hash_insert_or_increment(CountPairsTo(stats, tokens, n - 1),
                                  PairKey(tokens[n], tokens[n + 1]))

\* the body of the loop over j: molecules of fewer than 2 tokens are skipped
CountPairs(stats, tokens) ==
    IF Len(tokens) < 2 THEN stats
    ELSE CountPairsTo(stats, tokens, Len(tokens) - 1)

\* the scan of get_best_pair replacing the best pair on an equal count too
RECURSIVE BestScanOrEqual(_, _, _, _)
BestScanOrEqual(all, n, best, max_count) ==
    IF n > Len(all) THEN [pair |-> best, count |-> max_count]
    ELSE IF all[n].count >= max_count
         THEN BestScanOrEqual(all, n + 1, all[n].key, all[n].count)
         ELSE BestScanOrEqual(all, n + 1, best, max_count)

\* the scan of get_best_pair at item n of the table, with best_pair and
\* max_count so far
RECURSIVE BestScan(_, _, _, _)
BestScan(all, n, best, max_count) ==
    IF n > Len(all) THEN [pair |-> best, count |-> max_count]
    ELSE IF all[n].count > max_count
         THEN BestScan(all, n + 1, all[n].key, all[n].count)
         ELSE BestScan(all, n + 1, best, max_count)

\* get_best_pair keeping the last item instead of the greatest
get_best_pair_last(stats, count) ==
    LET all == TableItems(stats)
    IN  IF all = <<>> THEN [pair |-> NULLSTR, count |-> -1]
        ELSE [pair |-> all[Len(all)].key, count |-> all[Len(all)].count]

\* get_best_pair(stats, &count): the pair returned and the value left in count
get_best_pair(stats, count) ==
    IF stats = NULL THEN [pair |-> NULLSTR, count |-> count]
    ELSE BestScan(TableItems(stats), 1, NULLSTR, -1)

\* fgets: line n (from 1) of the file with its newline
Fgets(file, n) == file[n] \o <<"\n">>

\* "Remove newline if present"
StripNewline(line) ==
    IF Len(line) > 0 /\ line[Len(line)] = "\n"
    THEN SubSeq(line, 1, Len(line) - 1)
    ELSE line

(***************************************************************************)
(* Text of files: formatting and scanning                                  *)
(***************************************************************************)

Digits == <<"0", "1", "2", "3", "4", "5", "6", "7", "8", "9">>

IsDigit(c) == \E d \in 1..10 : Digits[d] = c

\* isspace (the vertical tab is not among the model's characters)
IsSpace(c) == c \in {" ", "\t", "\n", "\r", "\f"}

\* the value of a digit character
DigitValue(c) == (CHOOSE d \in 1..10 : Digits[d] = c) - 1

\* "%d" of printf for n >= 0
RECURSIVE Utoa(_)
Utoa(n) == IF n < 10 THEN <<Digits[n + 1]>>
           ELSE Utoa(n \div 10) \o <<Digits[(n % 10) + 1]>>

\* "%d" of printf
Itoa(n) == IF n < 0 THEN <<"-">> \o Utoa(-n) ELSE Utoa(n)

\* the character at position p of a text, "EOF" (no character) past its end
At(text, p) == IF p >= 1 /\ p <= Len(text) THEN text[p] ELSE "EOF"

\* the first position from p that holds no white space
RECURSIVE SkipSpace(_, _)
SkipSpace(text, p) ==
    IF IsSpace(At(text, p)) THEN SkipSpace(text, p + 1) ELSE p

\* the first position from p that holds no digit
RECURSIVE SkipDigits(_, _)
SkipDigits(text, p) ==
    IF IsDigit(At(text, p)) THEN SkipDigits(text, p + 1) ELSE p

\* the number written by the digits text[p..q-1]
RECURSIVE DigitsValue(_, _, _)
DigitsValue(text, p, q) ==
    IF q <= p THEN 0
    ELSE DigitsValue(text, p, q - 1) * 10 + DigitValue(text[q - 1])

\* the conversion "%d" of scanf (and atoi) at p: white space is skipped, then
\* an optional sign and digits; ok is FALSE when no digit is there
ScanInt(text, p) ==
    LET s == SkipSpace(text, p)
        d == IF At(text, s) \in {"-", "+"} THEN s + 1 ELSE s
        e == SkipDigits(text, d)
    IN  [ok    |-> e > d,
         value |-> IF At(text, s) = "-" THEN 0 - DigitsValue(text, d, e)
                   ELSE DigitsValue(text, d, e),
         next  |-> e]

\* the first position from p, at most width on, that holds white space or
\* lies past the end
RECURSIVE SkipWord(_, _, _)
SkipWord(text, p, width) ==
    IF width = 0 \/ At(text, p) = "EOF" \/ IsSpace(At(text, p)) THEN p
    ELSE SkipWord(text, p + 1, width - 1)

\* the conversion "%<width>s" of scanf at p: white space is skipped, then
\* up to width characters that are not white space
ScanWord(text, p, width) ==
    LET s == SkipSpace(text, p)
        e == SkipWord(text, s, width)
    IN  [ok |-> e > s, word |-> SubSeq(text, s, e - 1), next |-> e]

\* the end of what fgets(line, size, file) reads from p: after the newline or
\* after size - 1 characters
RECURSIVE LineEnd(_, _, _)
LineEnd(text, p, room) ==
    IF room = 0 \/ p > Len(text) THEN p
    ELSE IF text[p] = "\n" THEN p + 1
    ELSE LineEnd(text, p + 1, room - 1)

\* fgets(line, size, file) at p: ok is FALSE at the end of the file
FgetsAt(text, p, size) ==
    LET e == LineEnd(text, p, size - 1)
    IN  [ok |-> p <= Len(text), line |-> SubSeq(text, p, e - 1), next |-> e]

(***************************************************************************)
(* pre_tokenize under either format setting                                *)
(***************************************************************************)

\* the one-character alternatives of smiles_pattern, B and C (which take an
\* optional second character) and the digits left out
SmilesSingles ==
    {"N", "O", "S", "P", "F", "I", "b", "c", "n", "o", "s", "p", "(", ")",
     ".", "=", "#", "-", "+", "\\", "/", ":", "~", "@", "?", ">", "*", "$"}

\* the length of the longest match of smiles_pattern that starts at text[q],
\* 0 for none
SmilesMatchLen(text, q) ==
    IF text[q] = "["
    THEN LET r == Strchr(text, "]", q + 1)
         IN  IF r = 0 \/ r = q + 1 THEN 0 ELSE r - q + 1
    ELSE IF text[q] = "B" THEN (IF At(text, q + 1) = "r" THEN 2 ELSE 1)
    ELSE IF text[q] = "C" THEN (IF At(text, q + 1) = "l" THEN 2 ELSE 1)
    ELSE IF text[q] \in SmilesSingles THEN 1
    ELSE IF text[q] = "%"
         THEN (IF IsDigit(At(text, q + 1)) /\ IsDigit(At(text, q + 2))
               THEN 3 ELSE 0)
    ELSE IF IsDigit(text[q]) THEN 1
    ELSE 0

\* the match of the pattern chosen by input_format_is_smiles
PatternMatchLen(smiles, text, q) ==
    IF smiles THEN SmilesMatchLen(text, q) ELSE SelfiesMatchLen(text, q)

\* regexec from text[p] with the chosen pattern
RECURSIVE RegexecFor(_, _, _)
RegexecFor(smiles, text, p) ==
    IF p > Len(text) THEN 0
    ELSE IF PatternMatchLen(smiles, text, p) > 0 THEN p
    ELSE RegexecFor(smiles, text, p + 1)

\* the while loop of pre_tokenize going on from the character after the
\* start of the match
RECURSIVE TokenizeForOverlap(_, _, _, _)
TokenizeForOverlap(smiles, text, p, list) ==
    LET so == RegexecFor(smiles, text, p)
    IN  IF so = 0 THEN list
        ELSE LET len == PatternMatchLen(smiles, text, so)
             IN  TokenizeForOverlap(smiles, text, so + 1,
                                    Append(list, SubSeq(text, so, so + len - 1)))

\* the while loop of pre_tokenize with the chosen pattern
RECURSIVE TokenizeFor(_, _, _, _)
TokenizeFor(smiles, text, p, list) ==
    LET so == RegexecFor(smiles, text, p)
    IN  IF so = 0 THEN list
        ELSE LET len == PatternMatchLen(smiles, text, so)
             IN  TokenizeFor(smiles, text, so + len,
                             Append(list, SubSeq(text, so, so + len - 1)))

\* pre_tokenize(text) under the format setting given
pre_tokenize_format(smiles, text) == TokenizeFor(smiles, text, 1, <<>>)

(***************************************************************************)
(* pre_tokenize called on its own, twice on every short string             *)
(***************************************************************************)

\* the characters of the strings tried
TkChars == {"[", "]", ".", "C", "O", "l", "%", "1"}

MaxTextLen == 4
MaxTkCalls == 2

TkInit ==
    /\ tk_text \in SeqsUpTo(TkChars, MaxTextLen)
    /\ input_format_is_smiles \in BOOLEAN
    /\ tk_results = <<>>
    /\ HtIdle /\ MpIdle /\ TrIdle /\ IoIdle /\ BpeIdle

\* pre_tokenize(tk_text)
TkCall ==
    /\ Len(tk_results) < MaxTkCalls
    /\ tk_results' = Append(tk_results,
                            pre_tokenize_format(input_format_is_smiles, tk_text))
    /\ UNCHANGED <<input_format_is_smiles, tk_text, htvars, mpvars, trvars,
                   iovars, bpe>>

TkNext == TkCall

SpecTok == TkInit /\ [][TkNext]_vars

(***************************************************************************)
(* save_vocabulary and load_vocabulary: the text format                    *)
(***************************************************************************)

VocabularyMarker ==
    <<"-", "-", "-", "V", "O", "C", "A", "B", "U", "L", "A", "R", "Y",
      "-", "-", "-">>

\* the "%s\n" lines of merges[0..n-1]
RECURSIVE MergeLines(_, _)
MergeLines(list, n) ==
    IF n = 0 THEN <<>>
    ELSE MergeLines(list, n - 1) \o list[n] \o <<"\n">>

\* the "%s\t%d\n" lines of the first n items
RECURSIVE ItemLines(_, _)
ItemLines(all, n) ==
    IF n = 0 THEN <<>>
    ELSE ItemLines(all, n - 1)
         \o all[n].key \o <<"\t">> \o Itoa(all[n].count) \o <<"\n">>

\* what save_vocabulary writes
save_vocabulary(t, list) ==
    Itoa(Len(list)) \o <<"\n">>
    \o MergeLines(list, Len(list))
    \o VocabularyMarker \o <<"\n">>
    \o ItemLines(TableItems(t), Len(TableItems(t)))

\* char line[256] and char token[256] of load_vocabulary
LoadLineSize == 256

\* the loop that reads merge_count lines, from p, with the merges read so far
RECURSIVE ReadMerges(_, _, _, _)
ReadMerges(text, p, n, list) ==
    IF n <= 0 THEN [ok |-> TRUE, merges |-> list, next |-> p]
    ELSE LET got == FgetsAt(text, p, LoadLineSize)
         IN  IF ~got.ok THEN [ok |-> FALSE, merges |-> list, next |-> p]
             ELSE ReadMerges(text, got.next, n - 1,
                             Append(list, StripNewline(got.line)))

\* the loop that looks for the marker line: the position after it, or the end
\* of the file
RECURSIVE SkipToMarker(_, _)
SkipToMarker(text, p) ==
    LET got == FgetsAt(text, p, LoadLineSize)
    IN  IF ~got.ok THEN p
        ELSE IF got.line = VocabularyMarker \o <<"\n">> THEN got.next
        ELSE SkipToMarker(text, got.next)

\* an entry read by a loader: the count of its item is set, or a new item is
\* linked in (ht->count is not changed)
LoadEntry(t, key, count) ==
    LET slot == hash(key, t.size)
        n    == ChainFind(t.items[slot], key, 1)
    IN  IF n # 0 THEN SetCount(t, slot, n, count) ELSE PushItem(t, key, count)

\* the loop over fscanf(file, "%255s\t%d\n", token, &count) == 2, from p
RECURSIVE ReadEntries(_, _, _)
ReadEntries(text, p, t) ==
    LET token == ScanWord(text, p, LoadLineSize - 1)
        count == ScanInt(text, SkipSpace(text, token.next))
    IN  IF ~token.ok \/ ~count.ok THEN t
        ELSE ReadEntries(text, SkipSpace(text, count.next),
                         LoadEntry(t, token.word, count.value))

\* the table size the loaders create
LoadTableSize == 100

\* load_vocabulary on the characters of a file: NULL, or the vocabulary with
\* *merges_out and *merge_count_out
load_vocabulary(text) ==
    LET first == ScanInt(text, 1)
        read  == ReadMerges(text, SkipSpace(text, first.next), first.value, <<>>)
    IN  IF ~first.ok \/ ~read.ok THEN NULL
        ELSE [vocab |-> ReadEntries(text, SkipToMarker(text, read.next),
                                    ht_create(LoadTableSize)),
              merges |-> read.merges,
              merge_count |-> first.value]

(***************************************************************************)
(* save_vocabulary_json and load_vocabulary_json: the two JSON files       *)
(***************************************************************************)

\* what json_escape_string puts for one character (the backspace is not among
\* the model's characters)
EscapeChar(c) ==
    CASE c = "\"" -> <<"\\", "\"">>
      [] c = "\\" -> <<"\\", "\\">>
      [] c = "/"  -> <<"\\", "/">>
      [] c = "\f" -> <<"\\", "f">>
      [] c = "\n" -> <<"\\", "n">>
      [] c = "\r" -> <<"\\", "r">>
      [] c = "\t" -> <<"\\", "t">>
      [] OTHER    -> <<c>>

RECURSIVE json_escape_string(_)
json_escape_string(input) ==
    IF input = <<>> THEN <<>>
    ELSE EscapeChar(Head(input)) \o json_escape_string(Tail(input))

special_tokens ==
    << <<"<", "s", ">">>, <<"<", "p", "a", "d", ">">>, <<"<", "/", "s", ">">>,
       <<"<", "u", "n", "k", ">">>, <<"<", "m", "a", "s", "k", ">">> >>

is_special(key) == \E j \in 1..Len(special_tokens) : special_tokens[j] = key

\* one line "  \"%s\": %d%s\n" of a JSON file
JsonLine(name, value, comma) ==
    <<" ", " ", "\"">> \o name \o <<"\"", ":", " ">> \o Itoa(value)
    \o (IF comma THEN <<",">> ELSE <<>>) \o <<"\n">>

\* the lines of the special tokens, index 0 on; the last has its comma when
\* vocab->size > 0 || merge_count > 0
RECURSIVE SpecialLines(_, _, _)
SpecialLines(n, t, merge_count) ==
    IF n = 0 THEN <<>>
    ELSE SpecialLines(n - 1, t, merge_count)
         \o JsonLine(special_tokens[n], n - 1,
                     n < Len(special_tokens) \/ t.size > 0 \/ merge_count > 0)

\* token_list and count_list: the items that are not special tokens, in the
\* order of the table
token_list(t) == SelectSeq(TableItems(t), LAMBDA item : ~is_special(item.key))

\* the lines of the vocabulary file with the index counted from 1 after the
\* special tokens, which leaves the index 5 out
RECURSIVE IndexLinesGap(_, _)
IndexLinesGap(list, n) ==
    IF n = 0 THEN <<>>
    ELSE IndexLinesGap(list, n - 1)
         \o JsonLine(json_escape_string(list[n].key),
                     Len(special_tokens) + n, n < Len(list))

\* the lines of the first n tokens in the vocabulary file: token -> index
RECURSIVE IndexLines(_, _)
IndexLines(list, n) ==
    IF n = 0 THEN <<>>
    ELSE IndexLines(list, n - 1)
         \o JsonLine(json_escape_string(list[n].key),
                     Len(special_tokens) + n - 1, n < Len(list))

\* the lines of the first n tokens in the frequency file: token -> count
RECURSIVE CountLines(_, _)
CountLines(list, n) ==
    IF n = 0 THEN <<>>
    ELSE CountLines(list, n - 1)
         \o JsonLine(json_escape_string(list[n].key), list[n].count,
                     n < Len(list))

\* what save_vocabulary_json writes to <base>.json and <base>_freq.json; the
\* merges are written to neither
save_vocabulary_json(t, list) ==
    [vocab_file |->
         <<"{", "\n">>
         \o SpecialLines(Len(special_tokens), t, Len(list))
         \o IndexLines(token_list(t), Len(token_list(t)))
         \o <<"}", "\n">>,
     freq_file |->
         <<"{", "\n">>
         \o CountLines(token_list(t), Len(token_list(t)))
         \o <<"}", "\n">>]

\* the first position from p that holds one of the stops, or lies past the end
RECURSIVE SkipTo(_, _, _)
SkipTo(text, p, stops) ==
    IF At(text, p) = "EOF" \/ At(text, p) \in stops THEN p
    ELSE SkipTo(text, p + 1, stops)

\* the first position from p that holds none of the characters of a number
RECURSIVE SkipNumber(_, _)
SkipNumber(text, p) ==
    IF IsDigit(At(text, p)) \/ At(text, p) \in {"-", "."}
    THEN SkipNumber(text, p + 1)
    ELSE p

\* atoi(ptr)
atoi(text, p) == ScanInt(text, p).value

\* "Skip to next pair"
NextPair(text, p) ==
    LET q == SkipTo(text, p, {",", "}"})
    IN  IF At(text, q) = "," THEN q + 1 ELSE q

\* "Skip opening brace"
AfterBrace(text) ==
    LET q == SkipTo(text, 1, {"{"})
    IN  IF At(text, q) = "{" THEN q + 1 ELSE q

\* the key at p (an opening quote) with the position v of its value; ok is
\* FALSE when the text ends before the value
KeyAt(text, p) ==
    LET e == SkipTo(text, p + 1, {"\""})
        c == SkipTo(text, e + 1, {":"})
        v == SkipSpace(text, c + 1)
    IN  [ok  |-> At(text, e) # "EOF" /\ At(text, c) # "EOF"
                 /\ At(text, v) # "EOF",
         key |-> SubSeq(text, p + 1, e - 1),
         value |-> v]

\* the loop over the key-value pairs of <base>.json, from p
RECURSIVE ParseVocabPairs(_, _, _, _)
ParseVocabPairs(text, p, t, list) ==
    LET s    == SkipSpace(text, p)
        k    == KeyAt(text, s)
        v    == k.value
        e    == SkipTo(text, v + 1, {"\""})
        str  == SubSeq(text, v + 1, e - 1)
        here == [vocab |-> t, merges |-> list]
    IN  IF At(text, s) \in {"EOF", "}"} THEN here
        ELSE IF At(text, s) # "\"" THEN ParseVocabPairs(text, s + 1, t, list)
        ELSE IF ~k.ok THEN here
        ELSE IF At(text, v) = "\""
             THEN IF At(text, e) = "EOF" THEN here
                  ELSE IF Strchr(str, " ", 1) # 0
                  THEN ParseVocabPairs(text, NextPair(text, e + 1), t,
                                       Append(list, str))
                  ELSE ParseVocabPairs(text, NextPair(text, e + 1),
                                       PushItem(t, k.key, 1), list)
        ELSE IF IsDigit(At(text, v)) \/ At(text, v) = "-"
             THEN ParseVocabPairs(text, NextPair(text, SkipNumber(text, v)),
                                  PushItem(t, k.key, atoi(text, v)), list)
        ELSE ParseVocabPairs(text, NextPair(text, v), t, list)

\* the frequency loop leaving every count as the vocabulary file gave it
UpdateCountNone(t, key, count) == t

\* "Update count in vocabulary"
UpdateCount(t, key, count) ==
    LET slot == hash(key, t.size)
        n    == ChainFind(t.items[slot], key, 1)
    IN  IF n # 0 THEN SetCount(t, slot, n, count) ELSE t

\* the loop over the key-value pairs of <base>_freq.json, from p
RECURSIVE ParseFreqPairs(_, _, _)
ParseFreqPairs(text, p, t) ==
    LET s == SkipSpace(text, p)
        k == KeyAt(text, s)
        v == k.value
    IN  IF At(text, s) \in {"EOF", "}"} THEN t
        ELSE IF At(text, s) # "\"" THEN ParseFreqPairs(text, s + 1, t)
        ELSE IF ~k.ok THEN t
        ELSE IF IsDigit(At(text, v)) \/ At(text, v) = "-"
             THEN ParseFreqPairs(text, NextPair(text, v),
                                 UpdateCount(t, k.key, atoi(text, v)))
        ELSE ParseFreqPairs(text, NextPair(text, v), t)

\* load_vocabulary_json on the characters of <base>.json and <base>_freq.json;
\* freq is NULLSTR when fopen of the frequency file fails
load_vocabulary_json(json, freq) ==
    LET read == ParseVocabPairs(json, AfterBrace(json),
                                ht_create(LoadTableSize), <<>>)
    IN  [vocab |-> IF freq = NULLSTR THEN read.vocab
                   ELSE ParseFreqPairs(freq, AfterBrace(freq), read.vocab),
         merges |-> read.merges,
         merge_count |-> Len(read.merges)]

(***************************************************************************)
(* train_bpe_from_file                                                     *)
(***************************************************************************)

\* the vocabulary update that increments the merged token's count, as
\* hash_insert_or_increment would
StoreMergedIncrement(t, merged, count) ==
    hash_insert_or_increment(t, merged)

\* the vocabulary update that puts the merged token's item in place of the
\* chain of its slot
StoreMergedAlone(t, merged, count) ==
    [t EXCEPT !.items[hash(merged, t.size)] = <<Ht_item(merged, count)>>]

\* the vocabulary update that gives the pair's frequency to every item of the
\* merged token's chain
StoreMergedChain(t, merged, count) ==
    LET slot  == hash(merged, t.size)
        chain == [k \in 1..Len(t.items[slot]) |->
                     Ht_item(t.items[slot][k].key, count)]
    IN  IF ChainFind(chain, merged, 1) # 0
        THEN [t EXCEPT !.items[slot] = chain]
        ELSE [t EXCEPT !.items[slot] = <<Ht_item(merged, count)>> \o chain,
                       !.count = t.count + 1]

\* the vocabulary update of a round: the merged token's count is set to the
\* pair's frequency, in its item or in a new item
StoreMerged(t, merged, count) ==
    LET slot == hash(merged, t.size)
        n    == ChainFind(t.items[slot], merged, 1)
    IN  IF n # 0
        THEN SetCount(t, slot, n, count)
        ELSE [PushItem(t, merged, count) EXCEPT !.count = t.count + 1]

\* n times the character c
RECURSIVE Repeat(_, _)
Repeat(c, n) == IF n = 0 THEN <<>> ELSE <<c>> \o Repeat(c, n - 1)

\* a bracket group that fills pair_key by itself (PairKeySize - 1 bytes)
LongToken == <<"[">> \o Repeat("C", PairKeySize - 3) \o <<"]">>

\* the corpus lines tried
Lines ==
    { <<"[", "C", "]", "[", "C", "]", "[", "C", "]", "[", "N", "]">>,
      <<"[", "C", "]", "[", "N", "]">>,
      <<"[", "N", "]", "[", "C", "]">>,
      <<"[", "C", "]">>,
      <<"[", " ", "]", "[", "C", "]">>,
      LongToken \o <<"[", "C", "]">>,
      LongToken \o <<"[", "N", "]">>,
      <<"[", "/", "C", "]", "[", "C", "]">>,
      <<"C", "C">>,
      <<>> }

MaxLines == 2
MaxMerges == 3

TrainInit ==
    /\ pc = "pass1"
    /\ corpus \in SeqsUpTo(Lines, MaxLines)
    /\ num_merges \in 0..MaxMerges
    /\ vocab = ht_create(HT_DEFAULT_SIZE)
    /\ lineno = 0
    /\ line_count = 0
    /\ all_tokens = <<>>
    /\ merges = <<>>
    /\ round_i = 0
    /\ mol_j = 0
    /\ pair_stats = NULL
    /\ best_pair = NULLSTR
    /\ pair_count = 0
    /\ HtIdle /\ MpIdle /\ IoIdle /\ TkIdle /\ BpeIdle

\* one line of the first pass: its tokens are counted in the vocabulary
Pass1Line ==
    /\ pc = "pass1"
    /\ lineno < Len(corpus)
    /\ LET line == StripNewline(Fgets(corpus, lineno + 1))
       IN  IF Len(line) = 0
           THEN UNCHANGED <<vocab, line_count>>
           ELSE /\ vocab' = LET tokens == pre_tokenize(line)
                            IN  InsertTokens(vocab, tokens, Len(tokens))
                /\ line_count' = line_count + 1
    /\ lineno' = lineno + 1
    /\ UNCHANGED <<pc, corpus, num_merges, all_tokens, merges, round_i, mol_j,
                   pair_stats, best_pair, pair_count,
                   htvars, mpvars, tkvars, bpe, iovars>>

\* the end of the file in the first pass: rewind
Pass1End ==
    /\ pc = "pass1"
    /\ lineno = Len(corpus)
    /\ pc' = "pass2"
    /\ lineno' = 0
    /\ all_tokens' = <<>>
    /\ UNCHANGED <<corpus, num_merges, vocab, line_count, merges, round_i,
                   mol_j, pair_stats, best_pair, pair_count,
                   htvars, mpvars, tkvars, bpe, iovars>>

\* one line of the second pass that keeps a token list for an empty line too
Pass2LineKeepEmpty ==
    /\ pc = "pass2"
    /\ lineno < Len(corpus)
    /\ Len(all_tokens) < line_count
    /\ all_tokens' = Append(all_tokens,
                            pre_tokenize(StripNewline(Fgets(corpus, lineno + 1))))
    /\ lineno' = lineno + 1
    /\ UNCHANGED <<pc, corpus, num_merges, vocab, line_count, merges, round_i,
                   mol_j, pair_stats, best_pair, pair_count,
                   htvars, mpvars, tkvars, bpe, iovars>>

\* one line of the second pass: its token list is kept
Pass2Line ==
    /\ pc = "pass2"
    /\ lineno < Len(corpus)
    /\ Len(all_tokens) < line_count
    /\ LET line == StripNewline(Fgets(corpus, lineno + 1))
       IN  IF Len(line) = 0
           THEN UNCHANGED all_tokens
           ELSE all_tokens' = Append(all_tokens, pre_tokenize(line))
    /\ lineno' = lineno + 1
    /\ UNCHANGED <<pc, corpus, num_merges, vocab, line_count, merges, round_i,
                   mol_j, pair_stats, best_pair, pair_count,
                   htvars, mpvars, tkvars, bpe, iovars>>

\* the end of the second pass: the merge loop starts
Pass2End ==
    /\ pc = "pass2"
    /\ lineno = Len(corpus) \/ Len(all_tokens) >= line_count
    /\ pc' = "loop"
    /\ round_i' = 0
    /\ merges' = <<>>
    /\ UNCHANGED <<corpus, num_merges, vocab, lineno, line_count, all_tokens,
                   mol_j, pair_stats, best_pair, pair_count,
                   htvars, mpvars, tkvars, bpe, iovars>>

\* the test of the merge loop: a new round with an empty statistics table, or
\* the end of training
LoopTest ==
    /\ pc = "loop"
    /\ IF round_i < num_merges
       THEN /\ pair_stats' = ht_create(HT_DEFAULT_SIZE)
            /\ mol_j' = 0
            /\ pc' = "stats"
       ELSE /\ pc' = "save"
            /\ UNCHANGED <<pair_stats, mol_j>>
    /\ UNCHANGED <<corpus, num_merges, vocab, lineno, line_count, all_tokens,
                   merges, round_i, best_pair, pair_count,
                   htvars, mpvars, tkvars, bpe, iovars>>

\* the pairs of molecule j are counted
StatsMolecule ==
    /\ pc = "stats"
    /\ mol_j < Len(all_tokens)
    /\ pair_stats' = CountPairs(pair_stats, all_tokens[mol_j + 1])
    /\ mol_j' = mol_j + 1
    /\ UNCHANGED <<pc, corpus, num_merges, vocab, lineno, line_count,
                   all_tokens, merges, round_i, best_pair, pair_count,
                   htvars, mpvars, tkvars, bpe, iovars>>

\* get_best_pair on the finished statistics
Select ==
    /\ pc = "stats"
    /\ mol_j = Len(all_tokens)
    /\ LET best == get_best_pair(pair_stats, 0)
       IN  best_pair' = best.pair /\ pair_count' = best.count
    /\ pc' = "selected"
    /\ UNCHANGED <<corpus, num_merges, vocab, lineno, line_count, all_tokens,
                   merges, round_i, mol_j, pair_stats,
                   htvars, mpvars, tkvars, bpe, iovars>>

\* no pair, and the round is tried again instead of leaving the loop
NoPairRetry ==
    /\ pc = "selected"
    /\ best_pair = NULLSTR
    /\ pair_stats' = NULL
    /\ pc' = "loop"
    /\ UNCHANGED <<corpus, num_merges, vocab, lineno, line_count, all_tokens,
                   merges, round_i, mol_j, best_pair, pair_count, htvars,
                   mpvars, tkvars, bpe, iovars>>

\* no pair: the loop is left
NoPair ==
    /\ pc = "selected"
    /\ best_pair = NULLSTR
    /\ pair_stats' = NULL
    /\ pc' = "save"
    /\ UNCHANGED <<corpus, num_merges, vocab, lineno, line_count, all_tokens,
                   merges, round_i, mol_j, best_pair, pair_count, htvars,
                   mpvars, tkvars, bpe, iovars>>

\* the pair is recorded, split at its first space, and the merged token is
\* stored in the vocabulary with the pair's frequency
Update ==
    /\ pc = "selected"
    /\ best_pair # NULLSTR
    /\ merges' = Append(merges, best_pair)
    /\ IF Strchr(best_pair, " ", 1) = 0
       THEN /\ pair_stats' = NULL
            /\ pc' = "save"
            /\ UNCHANGED <<vocab, mol_j>>
       ELSE /\ vocab' = StoreMerged(vocab,
                             Merged(SplitFirst(best_pair), SplitSecond(best_pair)),
                             pair_count)
            /\ mol_j' = 0
            /\ pc' = "apply"
            /\ UNCHANGED pair_stats
    /\ UNCHANGED <<corpus, num_merges, lineno, line_count, all_tokens, round_i,
                   best_pair, pair_count,
                   htvars, mpvars, tkvars, bpe, iovars>>

\* the merge is applied to molecule j
ApplyMolecule ==
    /\ pc = "apply"
    /\ mol_j < Len(all_tokens)
    /\ all_tokens' = [all_tokens EXCEPT ![mol_j + 1] = merge_pair(@, best_pair)]
    /\ mol_j' = mol_j + 1
    /\ UNCHANGED <<pc, corpus, num_merges, vocab, lineno, line_count, merges,
                   round_i, pair_stats, best_pair, pair_count,
                   htvars, mpvars, tkvars, bpe, iovars>>

\* the end of a round: the statistics are freed
RoundEnd ==
    /\ pc = "apply"
    /\ mol_j = Len(all_tokens)
    /\ pair_stats' = NULL
    /\ round_i' = round_i + 1
    /\ pc' = "loop"
    /\ UNCHANGED <<corpus, num_merges, vocab, lineno, line_count, all_tokens,
                   merges, mol_j, best_pair, pair_count,
                   htvars, mpvars, tkvars, bpe, iovars>>

\* the vocabulary is saved in both formats and returned
Save ==
    /\ pc = "save"
    /\ vocab_file' = save_vocabulary(vocab, merges)
    /\ json_file' = save_vocabulary_json(vocab, merges).vocab_file
    /\ freq_file' = save_vocabulary_json(vocab, merges).freq_file
    /\ pc' = "done"
    /\ UNCHANGED <<corpus, num_merges, vocab, lineno, line_count, all_tokens,
                   merges, round_i, mol_j, pair_stats, best_pair, pair_count,
                   loaded, htvars, mpvars, tkvars, bpe>>

\* cvocgen -l: load_vocabulary on the text file written
LoadText ==
    /\ pc = "done"
    /\ loaded' = [by |-> "load_vocabulary", input |-> "saved",
                  result |-> load_vocabulary(vocab_file)]
    /\ pc' = "loaded"
    /\ UNCHANGED <<corpus, num_merges, vocab, lineno, line_count, all_tokens,
                   merges, round_i, mol_j, pair_stats, best_pair, pair_count,
                   vocab_file, json_file, freq_file, htvars, mpvars, tkvars, bpe>>

\* cvocgen -j: load_vocabulary_json on the two JSON files written
LoadJson ==
    /\ pc = "done"
    /\ loaded' = [by |-> "load_vocabulary_json", input |-> "saved",
                  result |-> load_vocabulary_json(json_file, freq_file)]
    /\ pc' = "loaded"
    /\ UNCHANGED <<corpus, num_merges, vocab, lineno, line_count, all_tokens,
                   merges, round_i, mol_j, pair_stats, best_pair, pair_count,
                   vocab_file, json_file, freq_file, htvars, mpvars, tkvars, bpe>>

\* the text file written, without its marker line
WithoutMarker(t, list) ==
    Itoa(Len(list)) \o <<"\n">>
    \o MergeLines(list, Len(list))
    \o ItemLines(TableItems(t), Len(TableItems(t)))

\* cvocgen -l on a text file that has no ---VOCABULARY--- line
LoadTextNoMarker ==
    /\ pc = "done"
    /\ loaded' = [by |-> "load_vocabulary", input |-> "no marker",
                  result |-> load_vocabulary(WithoutMarker(vocab, merges))]
    /\ pc' = "loaded"
    /\ UNCHANGED <<corpus, num_merges, vocab, lineno, line_count, all_tokens,
                   merges, round_i, mol_j, pair_stats, best_pair, pair_count,
                   vocab_file, json_file, freq_file, htvars, mpvars, tkvars, bpe>>

\* documents that are no flat map from strings to strings or numbers: the
\* file written cut in the middle, the file written without its closing
\* brace, and a nested object {"[C]":{"[N]":1}}
Malformed(json) ==
    [truncated |-> SubSeq(json, 1, Len(json) \div 2),
     unclosed  |-> SubSeq(json, 1, Len(json) - 2),
     nested    |-> <<"{", "\"", "[", "C", "]", "\"", ":",
                     "{", "\"", "[", "N", "]", "\"", ":", "1", "}", "}">>]

\* cvocgen -j on a malformed document, the frequency file as written
LoadJsonMalformed ==
    /\ pc = "done"
    /\ \E damage \in DOMAIN Malformed(json_file) :
          loaded' = [by |-> "load_vocabulary_json", input |-> damage,
                     result |-> load_vocabulary_json(
                                    Malformed(json_file)[damage], freq_file)]
    /\ pc' = "loaded"
    /\ UNCHANGED <<corpus, num_merges, vocab, lineno, line_count, all_tokens,
                   merges, round_i, mol_j, pair_stats, best_pair, pair_count,
                   vocab_file, json_file, freq_file, htvars, mpvars, tkvars, bpe>>

\* cvocgen -j on the vocabulary file written, with no frequency file beside it
LoadJsonAlone ==
    /\ pc = "done"
    /\ loaded' = [by |-> "load_vocabulary_json", input |-> "no freq",
                  result |-> load_vocabulary_json(json_file, NULLSTR)]
    /\ pc' = "loaded"
    /\ UNCHANGED <<corpus, num_merges, vocab, lineno, line_count, all_tokens,
                   merges, round_i, mol_j, pair_stats, best_pair, pair_count,
                   vocab_file, json_file, freq_file, htvars, mpvars, tkvars, bpe>>

\* get_pair_stats(tokens): NULL for fewer than two tokens
get_pair_stats(tokens) ==
    IF Len(tokens) < 2 THEN NULL
    ELSE CountPairsTo(ht_create(HT_DEFAULT_SIZE \div 10), tokens,
                      Len(tokens) - 1)

\* the size train_bpe creates its vocabulary with
BpeTableSize == 100

\* train_bpe stopped by the system (a read of freed memory, a double free)
Crashed == [crashed |-> TRUE]

\* the merge loop of train_bpe at round i: the ways it can end.  When the
\* selected key holds no space, merge_pair returns tokens itself, which the
\* loop then frees and goes on using: the call crashes, or goes on as if the
\* memory still held the tokens
RECURSIVE BpeRounds(_, _, _, _, _)
BpeRounds(i, budget, t, tokens, list) ==
    LET stats == get_pair_stats(tokens)
        best  == get_best_pair(stats, 0)
        here  == [vocab |-> t, merges |-> list]
    IN  IF i >= budget \/ stats = NULL \/ best.pair = NULLSTR THEN {here}
        ELSE IF Strchr(best.pair, " ", 1) = 0
        THEN {Crashed}
             \cup BpeRounds(i + 1, budget, t, tokens, Append(list, best.pair))
        ELSE BpeRounds(i + 1, budget,
                       hash_insert_or_increment(t, MergedOf(best.pair)),
                       merge_pair(tokens, best.pair),
                       Append(list, best.pair))

\* train_bpe(text, num_merges): the ways the call can end, NULL among them;
\* merges is what it has saved to vocab.txt
train_bpe(text, budget) ==
    IF budget <= 0 THEN {NULL}
    ELSE LET tokens == pre_tokenize(text)
         IN  BpeRounds(0, budget,
                       InsertTokens(ht_create(BpeTableSize), tokens, Len(tokens)),
                       tokens, <<>>)

\* train_bpe on the single line of the corpus file, with the same budget
TrainBpe ==
    /\ pc = "done"
    /\ Len(corpus) = 1
    /\ bpe' \in train_bpe(corpus[1], num_merges)
    /\ pc' = "bpe"
    /\ UNCHANGED <<corpus, num_merges, vocab, lineno, line_count, all_tokens,
                   merges, round_i, mol_j, pair_stats, best_pair, pair_count,
                   htvars, mpvars, iovars, tkvars>>

Next ==
    \/ Pass1Line \/ Pass1End \/ Pass2Line \/ Pass2End
    \/ LoopTest \/ StatsMolecule \/ Select \/ NoPair \/ Update
    \/ ApplyMolecule \/ RoundEnd \/ Save
    \/ LoadText \/ LoadJson \/ LoadTextNoMarker \/ LoadJsonMalformed
    \/ LoadJsonAlone \/ TrainBpe

Spec == TrainInit /\ [][Next]_vars

\* the statistics loop over the first n molecules, from an empty table
RECURSIVE StatsOf(_, _)
StatsOf(molecules, n) ==
    IF n = 0 THEN ht_create(HT_DEFAULT_SIZE)
    ELSE CountPairs(StatsOf(molecules, n - 1), molecules[n])

\* the tokens that occur in the Corpus
CorpusTokens == UNION {Range(all_tokens[m]) : m \in 1..Len(all_tokens)}

\* the positions <<molecule, i>> where token[i] = a and token[i+1] = b
Positions(a, b) ==
    UNION { { <<m, k>> : k \in { n \in 1..(Len(all_tokens[m]) - 1) :
                                    /\ all_tokens[m][n] = a
                                    /\ all_tokens[m][n + 1] = b } } :
            m \in 1..Len(all_tokens) }

RECURSIVE SumCounts(_, _)
SumCounts(all, n) == IF n = 0 THEN 0 ELSE all[n].count + SumCounts(all, n - 1)

\* the sum over the first n molecules of max(length - 1, 0)
RECURSIVE SumAdjacent(_)
SumAdjacent(n) ==
    IF n = 0 THEN 0
    ELSE (IF Len(all_tokens[n]) >= 1 THEN Len(all_tokens[n]) - 1 ELSE 0)
         + SumAdjacent(n - 1)

\* C1: after a successful merge round the Vocabulary entry of the concatenated
\* token (first + second of the selected pair) has exactly the selected pair's
\* frequency in that round's pair statistics as its count: the count is set,
\* whatever the token held before.
C1_MergedCountIsPairFrequency ==
    /\ pc = "apply" =>
          /\ hash_search(vocab, MergedOf(best_pair)) # NULL
          /\ hash_search(vocab, MergedOf(best_pair)).count
                = hash_search(pair_stats, best_pair).count
          /\ Stored(vocab, MergedOf(best_pair)) = 1
    /\ (pc = "loop" /\ round_i > 0) =>
          /\ hash_search(vocab, MergedOf(best_pair)) # NULL
          /\ hash_search(vocab, MergedOf(best_pair)).count = pair_count
          /\ merges[Len(merges)] = best_pair

\* the corpus [C][C][C][N] after one merge: "[C][C]" has the count 2
C1_Witness ==
    /\ pc = "loop" /\ round_i = 1
    /\ corpus = << <<"[", "C", "]", "[", "C", "]", "[", "C", "]", "[", "N", "]">> >>
    /\ best_pair = <<"[", "C", "]", " ", "[", "C", "]">>
    /\ hash_search(vocab, <<"[", "C", "]", "[", "C", "]">>).count = 2
    /\ hash_search(vocab, <<"[", "C", "]">>).count = 3

\* C2: after each merge round, the pair statistics recomputed over the
\* rewritten corpus give the just-applied pair a count of zero, for all
\* corpora of tokens the segmenter can emit.
C2_AppliedPairIsGone ==
    (pc = "loop" /\ round_i > 0) =>
        hash_search(StatsOf(all_tokens, Len(all_tokens)), best_pair) = NULL

\* count / capacity < load_threshold
BelowThreshold(t) ==
    t.count * t.load_threshold[2] < t.load_threshold[1] * t.size

\* C8: a table is doubled before a new key would bring (count+1)/capacity to
\* the load threshold, in hash_insert_or_increment and in the merge-time
\* insertion, so count/capacity is below the threshold in every state of
\* every table during training.
C8_LoadBelowThreshold ==
    /\ vocab # NULL => BelowThreshold(vocab)
    /\ pair_stats # NULL => BelowThreshold(pair_stats)

\* C9: the finished pair statistics give each ordered pair (a, b) the number
\* of positions i, over all molecules, with token[i] = a and token[i+1] = b,
\* overlapping occurrences included; the counts sum to the sum over the
\* molecules of max(length - 1, 0).
C9_StatsCountPositions ==
    pc = "selected" =>
        /\ \A a, b \in CorpusTokens :
              IF Positions(a, b) = {}
              THEN hash_search(pair_stats, PairKey(a, b)) = NULL
              ELSE /\ hash_search(pair_stats, PairKey(a, b)) # NULL
                   /\ hash_search(pair_stats, PairKey(a, b)).count
                         = Cardinality(Positions(a, b))
        /\ SumCounts(TableItems(pair_stats), pair_stats.count)
              = SumAdjacent(Len(all_tokens))
        /\ pair_stats.count = Len(TableItems(pair_stats))

\* C10: on a non-empty statistics table get_best_pair returns a pair of the
\* table whose count is at least the count of every other pair, and stores
\* that count; on an empty table it returns no pair.
C10_BestPairIsMaximal ==
    pc = "selected" =>
        LET all == TableItems(pair_stats)
        IN  IF all = <<>>
            THEN best_pair = NULLSTR
            ELSE /\ best_pair # NULLSTR
                 /\ hash_search(pair_stats, best_pair) # NULL
                 /\ hash_search(pair_stats, best_pair).count = pair_count
                 /\ \A n \in 1..Len(all) : all[n].count <= pair_count

\* a table of pairs with different counts in which the best is not the last
C10_Witness ==
    /\ pc = "selected"
    /\ LET all == TableItems(pair_stats)
       IN  /\ Len(all) >= 2
           /\ all[Len(all)].count < pair_count
           /\ best_pair # NULLSTR


\* the set of (token, count) pairs of a table
Pairs(t) == {TableItems(t)[n] : n \in 1..Len(TableItems(t))}

\* C4: once load_vocabulary has read the file that save_vocabulary wrote for
\* the trained vocabulary and merges, it has returned a vocabulary with the
\* same set of (token, count) pairs and the same merge list in the same order
C4_TextRoundTrip ==
    (pc = "loaded" /\ loaded.by = "load_vocabulary"
                   /\ loaded.input = "saved") =>
        /\ loaded.result # NULL
        /\ Pairs(loaded.result.vocab) = Pairs(vocab)
        /\ loaded.result.merges = merges

\* C5: once load_vocabulary_json has read the two files that
\* save_vocabulary_json wrote for the trained vocabulary and merges, it has
\* returned a vocabulary with the same set of (token, count) pairs and the
\* same merge list in the same order
C5_JsonRoundTrip ==
    (pc = "loaded" /\ loaded.by = "load_vocabulary_json"
                   /\ loaded.input = "saved") =>
        /\ Pairs(loaded.result.vocab) = Pairs(vocab)
        /\ loaded.result.merges = merges


\* C11: the pair key is unambiguous over the tokens of the Corpus (those the
\* segmenter or a merge produced): two different pairs never get the same
\* key, splitting a key at its first space gives back the pair, and so the
\* token stored for the selected pair is its first concatenated with its
\* second.
C11_PairKeyUnambiguous ==
    /\ \A a, b \in CorpusTokens :
          /\ SplitFirst(PairKey(a, b)) = a
          /\ SplitSecond(PairKey(a, b)) = b
          /\ \A c, d \in CorpusTokens :
                PairKey(a, b) = PairKey(c, d) => (a = c /\ b = d)
    /\ (pc = "apply" /\ mol_j = 0) =>
          \A a, b \in CorpusTokens :
              (Positions(a, b) # {} /\ PairKey(a, b) = best_pair)
                  => hash_search(vocab, a \o b) # NULL


\* C12: the merge list only grows, by one entry per successful round, the
\* entry appended being the pair selected in that round; entries are never
\* changed or removed; outside a round its length is the number of successful
\* rounds (round_i) and at most the merge budget.
C12_MergeHistoryAppendOnly ==
    /\ [][\/ merges' = merges
          \/ /\ pc = "selected"
             /\ merges' = Append(merges, best_pair)]_vars
    /\ [](pc \in {"loop", "save", "done", "loaded"} =>
             (Len(merges) = round_i /\ Len(merges) <= num_merges))


\* the distinct tokens of a table
TokensOf(t) == {TableItems(t)[n].key : n \in 1..Len(TableItems(t))}

\* C13: no step of training removes a token from the Vocabulary; the step of
\* a round that stores the merged token adds at most one token, and the
\* other steps of the merge rounds leave the set of tokens as it is, so the
\* number of distinct tokens never decreases from round to round.
C13_VocabularyNeverShrinks ==
    [][/\ TokensOf(vocab) \subseteq TokensOf(vocab')
       /\ pc = "selected" =>
             Cardinality(TokensOf(vocab'))
                <= Cardinality(TokensOf(vocab)) + 1
       /\ pc \notin {"pass1", "selected"} =>
             TokensOf(vocab') = TokensOf(vocab)]_vars

\* [C][C][C][N] after two rounds: two tokens of the segmenter and two merged
\* tokens
C13_Witness ==
    /\ pc = "loop" /\ round_i = 2
    /\ corpus = << <<"[", "C", "]", "[", "C", "]", "[", "C", "]", "[", "N", "]">> >>
    /\ Cardinality(TokensOf(vocab)) = 4


\* the places <<line, k>> of the corpus file where the segmenter output of a
\* non-empty line has the token at index k
Occurrences(token) ==
    UNION { { <<l, k>> : k \in { n \in 1..Len(pre_tokenize(corpus[l])) :
                                    pre_tokenize(corpus[l])[n] = token } } :
            l \in 1..Len(corpus) }

RoundSteps == 2 * Len(corpus) + 4

\* an upper bound of the steps left from the loop test of round r: the rounds
\* left, the last loop test, the saving and a load
LoopRank(r) == (num_merges - r) * RoundSteps + 3

\* an upper bound of the steps the program has left
Rank ==
    CASE pc = "pass1" ->
             (Len(corpus) - lineno) + 1 + Len(corpus) + 1 + LoopRank(0)
      [] pc = "pass2" -> (Len(corpus) - lineno) + 1 + LoopRank(0)
      [] pc = "loop" -> LoopRank(round_i)
      [] pc = "stats" -> LoopRank(round_i) - 1 - mol_j
      [] pc = "selected" -> LoopRank(round_i) - 2 - Len(all_tokens)
      [] pc = "apply" -> LoopRank(round_i) - 3 - Len(all_tokens) - mol_j
      [] pc = "save" -> 2
      [] pc = "done" -> 1
      [] OTHER -> 0

C16_NoMarkerIsFailure ==
    (pc = "loaded" /\ loaded.by = "load_vocabulary"
                   /\ loaded.input = "no marker") =>
        loaded.result = NULL


\* C17: load_vocabulary_json on a document that is no flat map from strings
\* to strings or numbers (cut short, a brace missing, a nested object)
\* returns NULL, not a vocabulary of the part it could read.
C17_MalformedJsonIsFailure ==
    (pc = "loaded" /\ loaded.by = "load_vocabulary_json"
                   /\ loaded.input \in {"truncated", "unclosed", "nested"}) =>
        loaded.result = NULL


\* the lines of a text, without their newlines
RECURSIVE SplitLines(_, _)
SplitLines(text, p) ==
    IF p > Len(text) THEN <<>>
    ELSE LET e == LineEnd(text, p, Len(text))
         IN  <<StripNewline(SubSeq(text, p, e - 1))>> \o SplitLines(text, e)

\* the position of the last c in str, 0 when there is none
RECURSIVE LastOf(_, _, _)
LastOf(str, c, n) ==
    IF n = 0 THEN 0
    ELSE IF str[n] = c THEN n
    ELSE LastOf(str, c, n - 1)

\* a line of the form   "name": number   with or without a comma, read back:
\* the name between the first and the last quote, and the number
EntryOf(line) ==
    LET q == LastOf(line, "\"", Len(line))
    IN  [key   |-> SubSeq(line, 4, q - 1),
         value |-> ScanInt(line, q + 2).value,
         comma |-> line[Len(line)] = ","]

\* the Vocabulary items that are no special token, in table-iteration order
OtherTokens ==
    SelectSeq(TableItems(vocab),
              LAMBDA item : \A j \in 1..5 : item.key # special_tokens[j])

\* C18: <base>.json holds the five special tokens with the indices 0..4,
\* then every other Vocabulary token once, in table-iteration order, with
\* the indices 5, 6, 7, ...; <base>_freq.json holds the same tokens in the
\* same order, each with its count in the Vocabulary.
C18_JsonFileLayout ==
    pc \in {"done", "loaded"} =>
        LET vlines == SplitLines(json_file, 1)
            flines == SplitLines(freq_file, 1)
            others == OtherTokens
        IN  /\ Len(vlines) = 7 + Len(others)
            /\ vlines[1] = <<"{">> /\ vlines[Len(vlines)] = <<"}">>
            /\ \A j \in 1..5 :
                  /\ EntryOf(vlines[1 + j]).key = special_tokens[j]
                  /\ EntryOf(vlines[1 + j]).value = j - 1
            /\ \A n \in 1..Len(others) :
                  /\ EntryOf(vlines[6 + n]).key
                        = json_escape_string(others[n].key)
                  /\ EntryOf(vlines[6 + n]).value = 4 + n
                  /\ Stored(vocab, others[n].key) = 1
            /\ Len(flines) = 2 + Len(others)
            /\ flines[1] = <<"{">> /\ flines[Len(flines)] = <<"}">>
            /\ \A n \in 1..Len(others) :
                  /\ EntryOf(flines[1 + n]).key
                        = json_escape_string(others[n].key)
                  /\ EntryOf(flines[1 + n]).value = others[n].count

\* the files of [C][C][C][N] after two merges: four tokens after the special
\* ones, the last with the index 8
C18_Witness ==
    /\ pc = "done"
    /\ corpus = << <<"[", "C", "]", "[", "C", "]", "[", "C", "]", "[", "N", "]">> >>
    /\ Len(merges) = 2
    /\ Len(SplitLines(json_file, 1)) = 11
    /\ EntryOf(SplitLines(json_file, 1)[10]).value = 8
    /\ Len(SplitLines(freq_file, 1)) = 6


\* the non-empty lines of the corpus file, in order
NonEmptyLines == SelectSeq(corpus, LAMBDA line : Len(line) > 0)

\* the places <<molecule, k>> of the Corpus that hold the token
TokenPlaces(token) ==
    UNION { { <<m, k>> : k \in { n \in 1..Len(all_tokens[m]) :
                                    all_tokens[m][n] = token } } :
            m \in 1..Len(all_tokens) }

RECURSIVE FirstPass(_, _)
FirstPass(file, n) ==
    IF n = 0 THEN ht_create(HT_DEFAULT_SIZE)
    ELSE LET line == StripNewline(Fgets(file, n))
             done == FirstPass(file, n - 1)
         IN  IF Len(line) = 0 THEN done
             ELSE InsertTokens(done, pre_tokenize(line),
                               Len(pre_tokenize(line)))

\* the second pass over the first n lines of a file: the token lists kept
RECURSIVE SecondPass(_, _)
SecondPass(file, n) ==
    IF n = 0 THEN <<>>
    ELSE LET line == StripNewline(Fgets(file, n))
         IN  IF Len(line) = 0 THEN SecondPass(file, n - 1)
             ELSE Append(SecondPass(file, n - 1), pre_tokenize(line))

\* the merge loop from round r with the Vocabulary, the token lists and the
\* merges so far: the Vocabulary and the merges at the end of training
RECURSIVE MergeRounds(_, _, _, _, _)
MergeRounds(r, budget, t, molecules, list) ==
    LET best == get_best_pair(StatsOf(molecules, Len(molecules)), 0)
    IN  IF r >= budget \/ best.pair = NULLSTR
        THEN [vocab |-> t, merges |-> list]
        ELSE IF Strchr(best.pair, " ", 1) = 0
        THEN [vocab |-> t, merges |-> Append(list, best.pair)]
        ELSE MergeRounds(r + 1, budget,
                         StoreMerged(t, MergedOf(best.pair), best.count),
                         [m \in 1..Len(molecules) |->
                             merge_pair(molecules[m], best.pair)],
                         Append(list, best.pair))

\* train_bpe_from_file as a function of the lines of the corpus file and
\* the merge budget
TrainResult(file, budget) ==
    MergeRounds(0, budget, FirstPass(file, Len(file)),
                SecondPass(file, Len(file)), <<>>)

\* C20: training on the lines of the corpus in any other order gives the
\* same merge list and the same counts for the same tokens as the run made.
C20_LineOrderIsIrrelevant ==
    pc = "done" =>
        \A f \in Permutations(1..Len(corpus)) :
            LET other == TrainResult([k \in 1..Len(corpus) |-> corpus[f[k]]],
                                     num_merges)
            IN  /\ other.merges = merges
                /\ Pairs(other.vocab) = Pairs(vocab)


\* the words of smiles_pattern other than a bracket group and %dd
SmilesWords ==
    {<<c>> : c \in SmilesSingles \cup {"B", "C"} \cup Range(Digits)}
    \cup {<<"B", "r">>, <<"C", "l">>}

\* a word of \[[^]]+\]
IsBracketGroup(w) ==
    /\ Len(w) >= 3
    /\ w[1] = "[" /\ w[Len(w)] = "]"
    /\ \A i \in 2..(Len(w) - 1) : w[i] # "]"

\* a word of the language of the format's pattern
InPattern(smiles, w) ==
    \/ IsBracketGroup(w)
    \/ IF smiles
       THEN \/ w \in SmilesWords
            \/ Len(w) = 3 /\ w[1] = "%" /\ IsDigit(w[2]) /\ IsDigit(w[3])
       ELSE w = <<".">>

\* the ends e of the words text[s..e] of the pattern
MatchEnds(smiles, text, s) ==
    {e \in s..Len(text) : InPattern(smiles, SubSeq(text, s, e))}

\* the spans <<s, e>> of the successive leftmost-longest matches from text[p]
RECURSIVE LeftmostLongest(_, _, _)
LeftmostLongest(smiles, text, p) ==
    LET starts == {s \in p..Len(text) : MatchEnds(smiles, text, s) # {}}
    IN  IF starts = {} THEN <<>>
        ELSE LET s == CHOOSE x \in starts : \A y \in starts : x <= y
                 e == CHOOSE x \in MatchEnds(smiles, text, s) :
                          \A y \in MatchEnds(smiles, text, s) : y <= x
             IN  <<<<s, e>>>> \o LeftmostLongest(smiles, text, e + 1)

\* C21: every call of pre_tokenize returns, in input order, the substrings at
\* the successive leftmost-longest matches of the pattern of the format set:
\* the matches do not overlap and what lies between them is dropped; the
\* calls on one string give one result; under the SELFIES pattern a string
\* without "[" and "." gives the empty sequence.
C21_TokensAreLeftmostLongestMatches ==
    LET spans == LeftmostLongest(input_format_is_smiles, tk_text, 1)
    IN  \A n \in 1..Len(tk_results) :
           /\ Len(tk_results[n]) = Len(spans)
           /\ \A k \in 1..Len(spans) :
                 /\ tk_results[n][k]
                       = SubSeq(tk_text, spans[k][1], spans[k][2])
                 /\ spans[k][1] <= spans[k][2]
                 /\ k > 1 => spans[k - 1][2] < spans[k][1]
           /\ tk_results[n] = tk_results[1]
           /\ ~input_format_is_smiles =>
                 /\ tk_results[n] = pre_tokenize(tk_text)
                 /\ (Range(tk_text) \cap {"[", "."} = {}) =>
                       tk_results[n] = <<>>

\* CCO under the SELFIES pattern, segmented twice: no token
C21_Witness ==
    /\ ~input_format_is_smiles
    /\ tk_text = <<"C", "C", "O">>
    /\ tk_results = << <<>>, <<>> >>


\* the entries of a JSON file written, braces left out
FileEntries(text) ==
    LET lines == SplitLines(text, 1)
    IN  [n \in 1..(Len(lines) - 2) |-> EntryOf(lines[n + 1])]

ItemsBut(t, token) == SelectSeq(TableItems(t), LAMBDA item : item.key # token)

\* C23: the vocabulary update of a merge round that goes on to rewrite the
\* Corpus changes the entry of the concatenated token only, inserted or
\* overwritten with the pair's frequency: every other entry keeps its key and
\* its count, the entries of the two halves of the pair among them, and the
\* pair is appended to the merge list; the other steps of a round leave the
\* Vocabulary and the merge list as they are; a round that finds no pair
\* changes neither the Vocabulary nor the merge list nor the Corpus.
C23_RoundChangesOneEntry ==
    /\ [][(pc = "selected" /\ pc' = "apply") =>
             LET merged == MergedOf(best_pair)
             IN  /\ ItemsBut(vocab', merged) = ItemsBut(vocab, merged)
                 /\ Stored(vocab', merged) = 1
                 /\ hash_search(vocab', merged).count = pair_count
                 /\ Stored(vocab, merged) <= 1
                 /\ Len(TableItems(vocab'))
                       = Len(TableItems(vocab)) + 1 - Stored(vocab, merged)
                 /\ \A half \in {SplitFirst(best_pair), SplitSecond(best_pair)} :
                       hash_search(vocab', half) = hash_search(vocab, half)
                 /\ merges' = Append(merges, best_pair)]_vars
    /\ [][(pc \in {"loop", "stats", "apply"}) =>
             (vocab' = vocab /\ merges' = merges)]_vars
    /\ [][(pc = "selected" /\ best_pair = NULLSTR) =>
             /\ vocab' = vocab /\ merges' = merges
             /\ all_tokens' = all_tokens]_vars

\* [C][C][C][N] and [C][N] right after the vocabulary update of the first
\* round: one new entry, [C] and [N] with the counts of the first pass
C23_Witness ==
    /\ pc = "apply" /\ mol_j = 0 /\ round_i = 0
    /\ Len(corpus) = 2
    /\ Len(TableItems(vocab)) = 3
    /\ hash_search(vocab, <<"[", "C", "]">>).count = 4
    /\ hash_search(vocab, <<"[", "N", "]">>).count = 2
    /\ hash_search(vocab, MergedOf(best_pair)).count = 2


\* the places <<bucket, position in the chain>> of the statistics table
StatsPlaces ==
    UNION { { <<i, k>> : k \in 1..Len(pair_stats.items[i]) } :
            i \in 0..(pair_stats.size - 1) }

\* place a comes before place b when get_best_pair scans the table
ScannedBefore(a, b) == a[1] < b[1] \/ (a[1] = b[1] /\ a[2] < b[2])

\* C24: among the pairs of the statistics table get_best_pair returns the one
\* it meets first, going through the buckets 0..size-1 and through each chain
\* from its head, of those with the greatest count: every pair met before it
\* has a smaller count and no pair met after it a greater one.
C24_FirstMaximumInTableOrder ==
    (pc = "selected" /\ best_pair # NULLSTR) =>
        \E pl \in StatsPlaces :
            LET item == pair_stats.items[pl[1]][pl[2]]
            IN  /\ item.key = best_pair
                /\ item.count = pair_count
                /\ \A other \in StatsPlaces :
                      LET o == pair_stats.items[other[1]][other[2]]
                      IN  /\ ScannedBefore(other, pl) => o.count < pair_count
                          /\ ScannedBefore(pl, other) => o.count <= pair_count

\* a table in which a pair of a later bucket has the count of the selected
\* pair, two or more
C24_Witness ==
    /\ pc = "selected" /\ best_pair # NULLSTR
    /\ \E pl, other \in StatsPlaces :
          /\ pair_stats.items[pl[1]][pl[2]].key = best_pair
          /\ ScannedBefore(pl, other)
          /\ pl[1] < other[1]
          /\ pair_stats.items[other[1]][other[2]].count = pair_count
    /\ pair_count >= 2


\* the characters of a token sequence, in order
RECURSIVE Concat(_)
Concat(tokens) ==
    IF tokens = <<>> THEN <<>> ELSE Head(tokens) \o Concat(Tail(tokens))

\* C25: from the end of segmentation on, in the middle of a round too, every
\* molecule's tokens concatenated are the characters its segmentation gave,
\* in order: a merge regroups them and changes, drops or cuts none.  The
\* merged token is never cut, however long the tokens: the two halves of a
\* pair key hold fewer characters than merged has room for.
C25_MergesKeepTheCharacters ==
    /\ pc \in {"loop", "stats", "selected", "apply", "save", "done", "loaded"} =>
          \A m \in 1..Len(all_tokens) :
              Concat(all_tokens[m]) = Concat(pre_tokenize(NonEmptyLines[m]))
    /\ pc = "apply" =>
          /\ Len(SplitFirst(best_pair) \o SplitSecond(best_pair)) < MergedSize - 1
          /\ MergedOf(best_pair) = SplitFirst(best_pair) \o SplitSecond(best_pair)

\* [C][C][C][N] and a line that starts with a token as long as pair_key,
\* after two rounds: the first molecule is two tokens, its characters are
\* those of the line
C25_Witness ==
    /\ pc = "loop" /\ round_i = 2
    /\ Len(all_tokens) = 2
    /\ Len(all_tokens[1]) = 2
    /\ Concat(all_tokens[1]) = corpus[1]
    /\ Len(all_tokens[2]) = 2
    /\ all_tokens[2][1] = LongToken


\* C26: a round that has appended its pair to the merge list ends with fewer
\* adjacent token pairs in the Corpus than its statistics counted when it
\* began (the number of tokens has gone down, the molecules being the same),
\* no rewriting of a molecule adds a token, and so no pair is in the merge
\* list twice.
C26_RoundsShrinkTheCorpus ==
    /\ [][(pc = "apply" /\ pc' = "loop") =>
             SumAdjacent(Len(all_tokens))
                < SumCounts(TableItems(pair_stats),
                            Len(TableItems(pair_stats)))]_vars
    /\ [][\A m \in 1..Len(all_tokens) :
             pc \notin {"pass1", "pass2"} =>
                 Len(all_tokens'[m]) <= Len(all_tokens[m])]_vars
    /\ [](\A a, b \in 1..Len(merges) : merges[a] = merges[b] => a = b)


\* the count field of a table is the number of items in its chains
CountIsEntries(t) == t.count = Len(TableItems(t))

\* C27: in every state the count field of every table is the number of
\* entries in its chains: the Vocabulary, the pair statistics, and the table
\* a loader has returned.
C27_CountFieldIsEntryCount ==
    /\ vocab # NULL => CountIsEntries(vocab)
    /\ pair_stats # NULL => CountIsEntries(pair_stats)
    /\ (pc = "loaded" /\ loaded.result # NULL) =>
          CountIsEntries(loaded.result.vocab)


\* C28: train_bpe on the string that is the single line of the corpus file,
\* with the budget of the run made, returns a vocabulary with the same
\* (token, count) pairs and has saved the same merge list, for a budget of 0
\* too.
C28_TrainBpeAgreesWithFromFile ==
    pc = "bpe" =>
        /\ bpe # NULL
        /\ bpe # Crashed
        /\ bpe.merges = merges
        /\ Pairs(bpe.vocab) = Pairs(vocab)


\* the text is an opening brace, entries of which all but the last end with a
\* comma, and a closing brace
CommasWellPlaced(text) ==
    LET lines   == SplitLines(text, 1)
        entries == FileEntries(text)
    IN  /\ Len(lines) >= 2
        /\ lines[1] = <<"{">> /\ lines[Len(lines)] = <<"}">>
        /\ \A n \in 1..Len(entries) : entries[n].comma <=> n < Len(entries)

\* C29: both files save_vocabulary_json has written are well-formed JSON
\* objects, for a Vocabulary without any token too: every entry but the last
\* is followed by a comma and the last entry is not.
C29_JsonFilesAreWellFormed ==
    pc \in {"done", "loaded", "bpe"} =>
        /\ CommasWellPlaced(json_file)
        /\ CommasWellPlaced(freq_file)


\* the merged tokens a round has created once every molecule is rewritten:
\* each takes the place of two tokens, so it is the number of adjacent pairs
\* the statistics counted less the number the Corpus has now
CreatedInRound ==
    SumCounts(TableItems(pair_stats), Len(TableItems(pair_stats)))
       - SumAdjacent(Len(all_tokens))

\* C30: when a round has rewritten every molecule, the number of merged
\* tokens it created is at most the selected pair's frequency, which is the
\* count the Vocabulary holds for the merged token; it is that frequency
\* when the two halves of the pair differ.
C30_MergedTokensMatchFrequency ==
    (pc = "apply" /\ mol_j = Len(all_tokens)) =>
        /\ hash_search(vocab, MergedOf(best_pair)).count = pair_count
        /\ CreatedInRound <= pair_count
        /\ SplitFirst(best_pair) # SplitSecond(best_pair) =>
              CreatedInRound = pair_count

=============================================================================
